---- MODULE Spec2Model ----
(***************************************************************************)
(* Stationery manager backend (app.py): the user, category and item       *)
(* tables, and one action per HTTP handler.  A handler that commits is     *)
(* one database transaction; the storage layer enforces the constraints    *)
(* the models declare (primary keys, unique, nullable=False, the foreign   *)
(* key item.category_id -> category.id) and may fail for its own reasons.  *)
(* Strings are TLA+ strings; JSON null / Python None is the value None.    *)
(* A JSON object (a request payload, a serialized item) is a function      *)
(* from its keys to its values.  A password or stored credential is a      *)
(* sequence of tokens, so that a hash is again a string that can be        *)
(* submitted as a password.                                                *)
(***************************************************************************)
EXTENDS Integers, Sequences, FiniteSets, TLC

VARIABLES users, categories, items, resp, req, pc, local

vars == <<users, categories, items, resp, req, pc, local>>

(***************************************************************************)
(* Bounds of the model.                                                    *)
(***************************************************************************)
\* nesting of hash-of-hash a stored credential may reach before Login stops
MaxHashDepth == 2
\* item ids (and so item rows) the id generator may produce
MaxItems == 2

None == "None"

(***************************************************************************)
(* JSON objects.                                                           *)
(***************************************************************************)
EmptyDict == [k \in {} |-> ""]

\* dict.get(key): None when the key is absent
Get(data, key) == IF key \in DOMAIN data THEN data[key] ELSE None

\* dict.get(key, default)
GetOr(data, key, default) == IF key \in DOMAIN data THEN data[key] ELSE default

\* Python truthiness of a JSON string-or-null
Truthy(v) == v # None /\ v # ""

\* dict.update(other)
Update(data, other) ==
    [k \in DOMAIN data \cup DOMAIN other |->
        IF k \in DOMAIN other THEN other[k] ELSE data[k]]

(***************************************************************************)
(* Calendar dates: datetime.date, date.fromisoformat, date.isoformat.      *)
(***************************************************************************)
Years == {2024}

IsLeap(y) == (y % 4 = 0 /\ y % 100 # 0) \/ y % 400 = 0

DaysIn(y, m) ==
    IF m = 2 THEN (IF IsLeap(y) THEN 29 ELSE 28)
    ELSE IF m \in {4, 6, 9, 11} THEN 30 ELSE 31

Dates ==
    UNION {{[year |-> y, month |-> m, day |-> d] : d \in 1..DaysIn(y, m)} :
              <<y, m>> \in Years \X (1..12)}

Pad2(n) == IF n < 10 THEN "0" \o ToString(n) ELSE ToString(n)

isoformat(d) == ToString(d.year) \o "-" \o Pad2(d.month) \o "-" \o Pad2(d.day)

\* the issuedDate strings requests carry: empty, two dates, a day that does not exist
IssuedDateInputs == {"", "2024-01-15", "2024-03-01", "2024-02-30"}

NoDate == [year |-> 0, month |-> 0, day |-> 0]

\* date.fromisoformat on each input string: the date, or ValueError
FromIsoTable ==
    [s \in IssuedDateInputs |->
        IF \E d \in Dates : isoformat(d) = s
        THEN [ok |-> TRUE, value |-> CHOOSE d \in Dates : isoformat(d) = s]
        ELSE [ok |-> FALSE, value |-> NoDate]]

fromisoformat(s) == FromIsoTable[s]

(***************************************************************************)
(* Item serialization and the core / dynamic split of a payload.           *)
(***************************************************************************)
core_fields == {"name", "department", "issuedDate", "categoryId"}

dynamic_attrs(data) == [k \in DOMAIN data \ core_fields |-> data[k]]

FixedDict(item) ==
    [k \in {"id", "name", "department", "issuedDate", "categoryId"} |->
        CASE k = "id" -> item.id
          [] k = "name" -> item.name
          [] k = "department" -> item.department
          [] k = "issuedDate" -> isoformat(item.issued_date)
          [] k = "categoryId" -> item.category_id]

to_dict(item) ==
    IF item.dynamic_attributes # EmptyDict
    THEN Update(FixedDict(item), item.dynamic_attributes)
    ELSE FixedDict(item)

category_to_dict(cat) == [k \in {"id", "name"} |-> IF k = "id" THEN cat.id ELSE cat.name]

(***************************************************************************)
(* The storage layer: declared constraints, commit and rollback.           *)
(***************************************************************************)
\* primary_key=True: no two rows of a table share an id
PrimaryKeyOk(rows) == \A a \in rows : \A b \in rows : a.id = b.id => a = b

\* Category.name: unique=True, nullable=False
CategoryNameOk(cats) ==
    /\ \A c \in cats : c.name # None
    /\ \A a \in cats : \A b \in cats : a.name = b.name => a = b

\* Item.name, Item.department: nullable=False
ItemNotNullOk(its) == \A i \in its : i.name # None /\ i.department # None

\* the column without its foreign key: any category_id is stored
NoForeignKey(cats, its) == TRUE

\* Item.category_id: db.ForeignKey('category.id'), nullable=True
ForeignKeyOk(cats, its) ==
    \A i \in its : i.category_id = None \/ \E c \in cats : c.id = i.category_id

\* User.username: unique=True
UsernameOk(us) == \A a \in us : \A b \in us : a.username = b.username => a = b

\* db.session.commit(): the flush succeeds when the storage answers (dbOk) and
\* every declared constraint holds of the tables as the session would leave them
commit(dbOk, us, cats, its) ==
    /\ dbOk
    /\ PrimaryKeyOk(us) /\ UsernameOk(us)
    /\ PrimaryKeyOk(cats) /\ CategoryNameOk(cats)
    /\ PrimaryKeyOk(its) /\ ItemNotNullOk(its) /\ ForeignKeyOk(cats, its)

\* a rollback that is missing: what the handler wrote stays
NoRollback(before, attempted) == attempted

\* db.session.rollback(): the tables as they were before the transaction
rollback(before, attempted) == before

\* db.session.add(row): an INSERT; a row with the id of a stored row is a
\* primary-key violation even when the two rows are equal
CanInsert(rows, row) == \A r \in rows : r.id # row.id

(***************************************************************************)
(* Responses.                                                              *)
(***************************************************************************)
\* op: the handler; status: the HTTP status; line: the source line of the
\* return (0: the framework answered); exc: the exception that ended the
\* handler's work, if any; target: the id of the URL; body: the JSON object
\* returned; list: the JSON array returned by a list endpoint
Response(op, status, line, exc, target, body) ==
    [op |-> op, status |-> status, line |-> line, exc |-> exc,
     target |-> target, body |-> body, list |-> <<>>]

NoResponse == Response("", 0, 0, "", "", EmptyDict)

\* a request as received: the handler, the id of the URL, the JSON body
Request(op, target, data) == [op |-> op, target |-> target, data |-> data]

NoRequest == Request("", "", EmptyDict)

NoItem ==
    [id |-> "", name |-> "", department |-> "", issued_date |-> NoDate,
     category_id |-> None, dynamic_attributes |-> EmptyDict]

\* what the last handler held in its locals: the row get_or_404 loaded (PUT)
\* and the number of rows the bulk UPDATE of a category delete matched
Locals(item, rowcount) == [item |-> item, rowcount |-> rowcount]

NoLocals == Locals(NoItem, 0)

(***************************************************************************)
(* Inputs.                                                                 *)
(***************************************************************************)
\* the ids uuid4 gives new categories
CategoryIds == {"cat-1", "cat-2"}

\* the ids uuid4 gives new items
ItemIds == {"item-" \o ToString(n) : n \in 1..MaxItems}

CategoryNameInputs == {"", "Paper", "Tools"}

Absent == "<absent>"

MkPayload(n, d, i, c, x, y) ==
    LET full == [k \in core_fields \cup {"color", "id"} |->
                    CASE k = "name" -> n
                      [] k = "department" -> d
                      [] k = "issuedDate" -> i
                      [] k = "categoryId" -> c
                      [] k = "color" -> x
                      [] k = "id" -> y]
    IN  [k \in {j \in DOMAIN full : full[j] # Absent} |-> full[k]]

\* request bodies of POST /api/items and PUT /api/items/<id>: every choice of
\* keys, with a name, a department, a date string, a category, and the extra
\* keys color and id
ItemPayloads ==
    {MkPayload(n, d, i, c, x, y) :
        n \in {Absent, "Pen", "Ink"},
        d \in {Absent, "Sales"},
        i \in {Absent} \cup IssuedDateInputs,
        c \in {Absent, "cat-1"},
        x \in {Absent, "blue"},
        y \in {Absent, "item-0"}}

\* the request bodies the catalogue is exercised with: the category moves, the
\* name, the date and one extra key come and go
CatalogPayloads ==
    {MkPayload(n, "Sales", "2024-01-15", c, x, Absent) :
        n \in {Absent, "Pen"},
        c \in {Absent, None} \cup CategoryIds,
        x \in {Absent, "blue"}}

(***************************************************************************)
(* B. Category management.                                                 *)
(***************************************************************************)
\* POST /api/categories
create_category(name, new_id, dbOk) ==
    LET new_category == [id |-> new_id, name |-> name]
        added == categories \cup {new_category}
    IN  /\ UNCHANGED <<users, items>>
        /\ local' = NoLocals
        /\ IF ~Truthy(name)
           THEN /\ resp' = Response("create_category", 400, 146, "", "", EmptyDict)
                /\ UNCHANGED categories
           ELSE IF CanInsert(categories, new_category) /\ commit(dbOk, users, added, items)
           THEN /\ categories' = added
                /\ resp' = Response("create_category", 201, 155, "", "",
                                    category_to_dict(new_category))
           ELSE /\ categories' = rollback(categories, added)
                /\ resp' = Response("create_category", 409, 158, "Exception", "", EmptyDict)

\* a delete that cascades to the items of the category
DeleteItemsOf(its, category_id) == {i \in its : i.category_id # category_id}

\* category.items.update({'category_id': None}): every item of the category
\* loses its reference, no other column and no other item changes
DetachItems(its, category_id) ==
    {IF i.category_id = category_id THEN [i EXCEPT !.category_id = None] ELSE i :
        i \in its}

\* DELETE /api/categories/<category_id>
category_detail(category_id, dbOk) ==
    /\ UNCHANGED users
    /\ local' = Locals(NoItem, Cardinality({i \in items : i.category_id = category_id}))
    /\ IF ~\E c \in categories : c.id = category_id
       THEN /\ resp' = Response("category_detail", 404, 162, "NotFound", category_id, EmptyDict)
            /\ UNCHANGED <<categories, items>>
       ELSE LET detached == DetachItems(items, category_id)
                removed == {c \in categories : c.id # category_id}
            IN  IF commit(dbOk, users, removed, detached)
                THEN /\ items' = detached
                     /\ categories' = removed
                     /\ resp' = Response("category_detail", 204, 172, "", category_id, EmptyDict)
                ELSE /\ items' = rollback(items, detached)
                     /\ categories' = rollback(categories, removed)
                     /\ resp' = Response("category_detail", 500, 175, "Exception",
                                         category_id, EmptyDict)

(***************************************************************************)
(* C. Item management.                                                     *)
(***************************************************************************)
\* ORDER BY name ASC over the names the inputs carry
Collate(name) == CASE name = "Ink" -> 1 [] name = "Pen" -> 2 [] OTHER -> 0

\* the orders Item.query.order_by(Item.name.asc()).all() may return the rows in
\* (rows of equal name come in an order the storage picks)
OrderedByName(its) ==
    {s \in [1..Cardinality(its) -> its] :
        /\ \A a \in its : \E n \in DOMAIN s : s[n] = a
        /\ \A m \in DOMAIN s : \A n \in DOMAIN s :
              m < n => Collate(s[m].name) <= Collate(s[n].name)}

\* GET /api/items
get_items(rows) ==
    /\ rows \in OrderedByName(items)
    /\ resp' = [Response("get_items", 200, 182, "", "", EmptyDict) EXCEPT
                   !.list = [n \in DOMAIN rows |-> to_dict(rows[n])]]
    /\ local' = NoLocals
    /\ UNCHANGED <<users, categories, items>>

\* POST /api/items
create_item(data, new_id, dbOk) ==
    /\ UNCHANGED <<users, categories>>
    /\ local' = NoLocals
    /\ IF ~(Truthy(Get(data, "name")) /\ Truthy(Get(data, "department"))
              /\ Truthy(Get(data, "issuedDate")))
       THEN /\ resp' = Response("create_item", 400, 190, "", "", EmptyDict)
            /\ UNCHANGED items
       ELSE LET issued_date_obj == fromisoformat(data["issuedDate"])
                new_item == [id |-> new_id,
                             name |-> data["name"],
                             department |-> data["department"],
                             issued_date |-> issued_date_obj.value,
                             category_id |-> Get(data, "categoryId"),
                             dynamic_attributes |-> dynamic_attrs(data)]
                added == items \cup {new_item}
            IN  IF ~issued_date_obj.ok
                THEN /\ resp' = Response("create_item", 500, 217, "ValueError", "", EmptyDict)
                     /\ UNCHANGED items
                ELSE IF CanInsert(items, new_item) /\ commit(dbOk, users, categories, added)
                THEN /\ items' = added
                     /\ resp' = Response("create_item", 201, 214, "", "", to_dict(new_item))
                ELSE /\ items' = rollback(items, added)
                     /\ resp' = Response("create_item", 500, 217,
                                         IF dbOk THEN "IntegrityError" ELSE "OperationalError",
                                         "", EmptyDict)

\* the assignments of the PUT branch to the loaded row, the date excepted
AssignFields(item, data) ==
    [item EXCEPT !.name = GetOr(data, "name", item.name),
                 !.department = GetOr(data, "department", item.department),
                 !.category_id = GetOr(data, "categoryId", item.category_id),
                 !.dynamic_attributes = dynamic_attrs(data)]

\* PUT /api/items/<item_id>
item_detail_PUT(item_id, data, dbOk) ==
    /\ UNCHANGED <<users, categories>>
    /\ IF ~\E i \in items : i.id = item_id
       THEN /\ resp' = Response("item_detail_PUT", 404, 221, "NotFound", item_id, EmptyDict)
            /\ local' = NoLocals
            /\ UNCHANGED items
       ELSE LET item == CHOOSE i \in items : i.id = item_id
                has_date == Truthy(Get(data, "issuedDate"))
                parsed == IF has_date THEN fromisoformat(data["issuedDate"])
                          ELSE [ok |-> TRUE, value |-> item.issued_date]
                updated == [AssignFields(item, data) EXCEPT !.issued_date = parsed.value]
                replaced == (items \ {item}) \cup {updated}
            IN  /\ local' = Locals(item, 0)
                /\ IF ~parsed.ok
                   THEN \* ValueError leaves the handler; the request's session is discarded
                        /\ resp' = Response("item_detail_PUT", 500, 0, "ValueError",
                                            item_id, EmptyDict)
                        /\ UNCHANGED items
                   ELSE IF commit(dbOk, users, categories, replaced)
                   THEN /\ items' = replaced
                        /\ resp' = Response("item_detail_PUT", 200, 247, "", item_id,
                                            to_dict(updated))
                   ELSE /\ items' = rollback(items, replaced)
                        /\ resp' = Response("item_detail_PUT", 500, 250,
                                            IF dbOk THEN "IntegrityError" ELSE "OperationalError",
                                            item_id, EmptyDict)

\* DELETE /api/items/<item_id>
item_detail_DELETE(item_id, dbOk) ==
    /\ UNCHANGED <<users, categories>>
    /\ local' = NoLocals
    /\ IF ~\E i \in items : i.id = item_id
       THEN /\ resp' = Response("item_detail_DELETE", 404, 221, "NotFound", item_id, EmptyDict)
            /\ UNCHANGED items
       ELSE LET deleted == {i \in items : i.id # item_id}
            IN  IF commit(dbOk, users, categories, deleted)
                THEN /\ items' = deleted
                     /\ resp' = Response("item_detail_DELETE", 204, 257, "", item_id, EmptyDict)
                ELSE /\ items' = rollback(items, deleted)
                     /\ resp' = Response("item_detail_DELETE", 500, 260, "OperationalError",
                                         item_id, EmptyDict)

(***************************************************************************)
(* The catalogue: category and item requests served one after another.     *)
(***************************************************************************)
InitTables ==
    /\ users = {}
    /\ categories = {}
    /\ items = {}
    /\ resp = NoResponse
    /\ req = NoRequest
    /\ pc = <<>>
    /\ local = NoLocals

CreateCategory ==
    \E name \in CategoryNameInputs, new_id \in CategoryIds, dbOk \in BOOLEAN :
        create_category(name, new_id, dbOk) /\ UNCHANGED <<req, pc>>

DeleteCategory ==
    \E category_id \in CategoryIds, dbOk \in BOOLEAN :
        category_detail(category_id, dbOk) /\ UNCHANGED <<req, pc>>

GetItems ==
    \E rows \in OrderedByName(items) : get_items(rows) /\ UNCHANGED <<req, pc>>

CreateItem ==
    \E data \in CatalogPayloads, new_id \in ItemIds, dbOk \in BOOLEAN :
        create_item(data, new_id, dbOk) /\ UNCHANGED <<req, pc>>

UpdateItem ==
    \E item_id \in ItemIds, data \in CatalogPayloads, dbOk \in BOOLEAN :
        item_detail_PUT(item_id, data, dbOk) /\ UNCHANGED <<req, pc>>

DeleteItem ==
    \E item_id \in ItemIds, dbOk \in BOOLEAN :
        item_detail_DELETE(item_id, dbOk) /\ UNCHANGED <<req, pc>>

NextCatalog ==
    \/ CreateCategory
    \/ DeleteCategory
    \/ GetItems
    \/ CreateItem
    \/ UpdateItem
    \/ DeleteItem

SpecCatalog == InitTables /\ [][NextCatalog]_vars

(***************************************************************************)
(* One item record, created and edited with every payload; the request is  *)
(* kept next to the response it got.                                       *)
(***************************************************************************)
PostItem ==
    \E data \in ItemPayloads :
        /\ create_item(data, "item-1", TRUE)
        /\ req' = Request("create_item", "", data)
        /\ UNCHANGED pc

PutItem ==
    \E data \in ItemPayloads :
        /\ item_detail_PUT("item-1", data, TRUE)
        /\ req' = Request("item_detail_PUT", "item-1", data)
        /\ UNCHANGED pc

ListItems ==
    \E rows \in OrderedByName(items) :
        /\ get_items(rows)
        /\ req' = Request("get_items", "", EmptyDict)
        /\ UNCHANGED pc

PostCategory ==
    \E dbOk \in BOOLEAN :
        /\ create_category("Paper", "cat-1", dbOk)
        /\ req' = Request("create_category", "", EmptyDict)
        /\ UNCHANGED pc

NextOneItem ==
    \/ PostCategory
    \/ PostItem
    \/ PutItem
    \/ ListItems

SpecOneItem == InitTables /\ [][NextOneItem]_vars

(***************************************************************************)
(* A. User authentication: werkzeug's password hashes, login, register,    *)
(* admin-exists and the start-up bootstrap.                                *)
(***************************************************************************)
Method == "pbkdf2:sha256"

\* generate_password_hash(password): method$salt$digest, the digest standing
\* for the password it was computed from
generate_password_hash(password, salt) == <<Method, salt>> \o password

\* a string of the shape method$salt$digest
IsHash(pwhash) == Len(pwhash) >= 2 /\ pwhash[1] = Method

\* check_password_hash(pwhash, password): False for a string that is no hash
check_password_hash(pwhash, password) ==
    IsHash(pwhash) /\ SubSeq(pwhash, 3, Len(pwhash)) = password

\* how many times a string was hashed
HashDepth(pwhash) == Cardinality({n \in DOMAIN pwhash : pwhash[n] = Method})

Salts == {"s1", "s2"}

PlainPasswords == {<<"admin">>, <<"pw">>}

UsernameInputs == {"", "admin", "alice"}

RoleInputs == {"admin", "buyer", "root"}

UserDict(user) ==
    [k \in {"username", "role"} |-> IF k = "username" THEN user.username ELSE user.role]

\* User.query.filter_by(username=username).first()
UsersNamed(us, username) == {u \in us : u.username = username}

\* register without its username test
UsernameNeverTaken(us, username) == FALSE

\* the second test of register: the username is already stored
UsernameTaken(us, username) == UsersNamed(us, username) # {}

\* User.query.filter_by(role='admin').first()
Admins(us) == {u \in us : u.role = "admin"}

\* GET /api/admin-exists
admin_exists(us) == Admins(us) # {}

\* the integer primary key the storage gives the next user row
NextUserId(us) == Cardinality(us) + 1

NewUser(us, username, password, role, salt) ==
    [id |-> NextUserId(us), username |-> username,
     password |-> generate_password_hash(password, salt), role |-> role]

\* the credential rewrite of the plaintext branch of login
Rehash(user, password, salt) ==
    [user EXCEPT !.password = generate_password_hash(password, salt)]

\* POST /api/login
login(username, password, salt, dbOk) ==
    /\ UNCHANGED <<categories, items>>
    /\ local' = NoLocals
    /\ IF UsersNamed(users, username) = {}
       THEN /\ resp' = Response("login", 401, 85, "", username, EmptyDict)
            /\ UNCHANGED users
       ELSE LET user == CHOOSE u \in users : u.username = username
                rewritten == (users \ {user}) \cup {Rehash(user, password, salt)}
            IN  IF check_password_hash(user.password, password)
                THEN /\ resp' = Response("login", 200, 89, "", username, UserDict(user))
                     /\ UNCHANGED users
                ELSE IF user.password = password
                THEN /\ users' = IF commit(dbOk, rewritten, categories, items)
                                 THEN rewritten
                                 ELSE rollback(users, rewritten)
                     /\ resp' = Response("login", 200, 99, "", username, UserDict(user))
                ELSE /\ resp' = Response("login", 401, 101, "", username, EmptyDict)
                     /\ UNCHANGED users

\* the first test of register: a field is missing or the role is unknown
RegisterInvalid(username, password, role) ==
    username = "" \/ password = <<>> \/ role \notin {"admin", "buyer"}

\* POST /api/register
register(username, password, role, salt, dbOk) ==
    LET user == NewUser(users, username, password, role, salt)
        added == users \cup {user}
    IN  /\ UNCHANGED <<categories, items>>
        /\ local' = NoLocals
        /\ IF RegisterInvalid(username, password, role)
           THEN /\ resp' = Response("register", 400, 112, "", username, EmptyDict)
                /\ UNCHANGED users
           ELSE IF UsernameTaken(users, username)
           THEN /\ resp' = Response("register", 409, 115, "", username, EmptyDict)
                /\ UNCHANGED users
           ELSE IF role = "admin" /\ admin_exists(users)
           THEN /\ resp' = Response("register", 403, 118, "", username, EmptyDict)
                /\ UNCHANGED users
           ELSE IF commit(dbOk, added, categories, items)
           THEN /\ users' = added
                /\ resp' = Response("register", 201, 125, "", username, UserDict(user))
           ELSE /\ users' = rollback(users, added)
                /\ resp' = Response("register", 500, 128, "Exception", username, EmptyDict)

\* __main__: the default admin, added when no user is named admin
bootstrap(salt, dbOk) ==
    LET user == NewUser(users, "admin", <<"admin">>, "admin", salt)
        added == users \cup {user}
    IN  /\ UNCHANGED <<categories, items>>
        /\ local' = NoLocals
        /\ IF UsersNamed(users, "admin") = {} /\ commit(dbOk, added, categories, items)
           THEN users' = added
           ELSE users' = rollback(users, added)
        /\ resp' = Response("bootstrap", 0, 279, IF dbOk THEN "" ELSE "Exception", "",
                            EmptyDict)

\* the body of a login or register request
Credentials(password, role) == [password |-> password, role |-> role]

(***************************************************************************)
(* Accounts: the bootstrap, Register and Login one after another, from an  *)
(* empty user table.  A login may submit any string, a stored credential   *)
(* included.                                                               *)
(***************************************************************************)
Bootstrap ==
    \E salt \in Salts, dbOk \in BOOLEAN :
        /\ bootstrap(salt, dbOk)
        /\ req' = Request("bootstrap", "", Credentials(<<>>, ""))
        /\ UNCHANGED pc

Register ==
    \E username \in UsernameInputs, password \in {<<>>, <<"pw">>}, role \in RoleInputs,
       salt \in Salts, dbOk \in BOOLEAN :
        /\ register(username, password, role, salt, dbOk)
        /\ req' = Request("register", username, Credentials(password, role))
        /\ UNCHANGED pc

Login ==
    \E username \in UsernameInputs,
       password \in PlainPasswords \cup {u.password : u \in users},
       salt \in Salts, dbOk \in BOOLEAN :
        /\ HashDepth(password) < MaxHashDepth
        /\ login(username, password, salt, dbOk)
        /\ req' = Request("login", username, Credentials(password, ""))
        /\ UNCHANGED pc

NextAuth ==
    \/ Bootstrap
    \/ Register
    \/ Login

SpecAuth == InitTables /\ [][NextAuth]_vars

(***************************************************************************)
(* Legacy accounts: a user table written before passwords were hashed,     *)
(* holding plaintext credentials, and the logins that migrate it.          *)
(***************************************************************************)
LegacyUser(id, username, password, role) ==
    [id |-> id, username |-> username, password |-> password, role |-> role]

InitLegacy ==
    /\ \E p \in PlainPasswords, q \in PlainPasswords :
          users \in {{LegacyUser(1, "alice", p, "buyer")},
                     {LegacyUser(1, "alice", p, "buyer"), LegacyUser(2, "admin", q, "admin")}}
    /\ categories = {}
    /\ items = {}
    /\ resp = NoResponse
    /\ req = NoRequest
    /\ pc = <<>>
    /\ local = NoLocals

NextLegacy ==
    \/ Login
    \/ Register

SpecLegacy == InitLegacy /\ [][NextLegacy]_vars

(***************************************************************************)
(* Concurrent registration: each request runs the two queries and the      *)
(* insert of register as separate statements against the shared table.     *)
(***************************************************************************)
Procs == {1, 2}

InitRace ==
    /\ users = {}
    /\ categories = {}
    /\ items = {}
    /\ resp = [p \in Procs |-> NoResponse]
    /\ req = [p \in Procs |-> NoRequest]
    /\ pc = [p \in Procs |-> "idle"]
    /\ local = NoLocals

\* the request arrives: validation and the username query
RegisterBegin(p) ==
    \E username \in UsernameInputs, role \in RoleInputs :
        /\ pc[p] = "idle"
        /\ req' = [req EXCEPT ![p] = Request("register", username, Credentials(<<"pw">>, role))]
        /\ IF RegisterInvalid(username, <<"pw">>, role)
           THEN /\ resp' = [resp EXCEPT ![p] =
                               Response("register", 400, 112, "", username, EmptyDict)]
                /\ UNCHANGED pc
           ELSE IF UsernameTaken(users, username)
           THEN /\ resp' = [resp EXCEPT ![p] =
                               Response("register", 409, 115, "", username, EmptyDict)]
                /\ UNCHANGED pc
           ELSE /\ pc' = [pc EXCEPT ![p] = "check_admin"]
                /\ UNCHANGED resp
        /\ UNCHANGED <<users, categories, items, local>>

\* the admin query
RegisterCheckAdmin(p) ==
    /\ pc[p] = "check_admin"
    /\ IF req[p].data.role = "admin" /\ admin_exists(users)
       THEN /\ resp' = [resp EXCEPT ![p] =
                           Response("register", 403, 118, "", req[p].target, EmptyDict)]
            /\ pc' = [pc EXCEPT ![p] = "idle"]
       ELSE /\ pc' = [pc EXCEPT ![p] = "insert"]
            /\ UNCHANGED resp
    /\ UNCHANGED <<users, categories, items, req, local>>

\* the insert and its commit
RegisterInsert(p) ==
    \E salt \in Salts, dbOk \in BOOLEAN :
        LET user == NewUser(users, req[p].target, req[p].data.password,
                            req[p].data.role, salt)
            added == users \cup {user}
        IN  /\ pc[p] = "insert"
            /\ pc' = [pc EXCEPT ![p] = "idle"]
            /\ IF commit(dbOk, added, categories, items)
               THEN /\ users' = added
                    /\ resp' = [resp EXCEPT ![p] =
                                   Response("register", 201, 125, "", user.username,
                                            UserDict(user))]
               ELSE /\ users' = rollback(users, added)
                    /\ resp' = [resp EXCEPT ![p] =
                                   Response("register", 500, 128, "Exception",
                                            user.username, EmptyDict)]
            /\ UNCHANGED <<categories, items, req, local>>

NextRace == \E p \in Procs : RegisterBegin(p) \/ RegisterCheckAdmin(p) \/ RegisterInsert(p)

SpecRace == InitRace /\ [][NextRace]_vars

(***************************************************************************)
(* Writes: every mutating handler, with inputs that make each of its       *)
(* failures happen (a missing field, a date that does not parse, an        *)
(* unknown category, a taken name, a second admin, a storage failure).     *)
(***************************************************************************)
WritePayloads ==
    {MkPayload(n, "Sales", i, c, Absent, Absent) :
        n \in {Absent, "Pen", "Ink"},
        i \in {"2024-01-15", "2024-02-30"},
        c \in {Absent} \cup CategoryIds}

WriteRegister ==
    \E username \in {"", "alice", "bob"}, role \in {"admin", "root"}, dbOk \in BOOLEAN :
        register(username, <<"pw">>, role, "s1", dbOk) /\ UNCHANGED <<req, pc>>

WriteCreateCategory ==
    \E name \in {"", "Paper"}, new_id \in CategoryIds, dbOk \in BOOLEAN :
        create_category(name, new_id, dbOk) /\ UNCHANGED <<req, pc>>

WriteCreateItem ==
    \E data \in WritePayloads, new_id \in ItemIds, dbOk \in BOOLEAN :
        create_item(data, new_id, dbOk) /\ UNCHANGED <<req, pc>>

WriteUpdateItem ==
    \E item_id \in ItemIds, data \in WritePayloads, dbOk \in BOOLEAN :
        item_detail_PUT(item_id, data, dbOk) /\ UNCHANGED <<req, pc>>

NextWrites ==
    \/ WriteRegister
    \/ WriteCreateCategory
    \/ DeleteCategory
    \/ WriteCreateItem
    \/ WriteUpdateItem
    \/ DeleteItem

SpecWrites == InitTables /\ [][NextWrites]_vars

(***************************************************************************)
(* Properties.                                                             *)
(***************************************************************************)
IsIsoDate(s) == \E d \in Dates : isoformat(d) = s

\* the fixed fields of a serialized item are those of the stored row
CarriesStored(body, i) ==
    /\ {"id", "name", "department", "issuedDate", "categoryId"} \subseteq DOMAIN body
    /\ body["id"] = i.id
    /\ body["name"] = i.name
    /\ body["department"] = i.department
    /\ body["issuedDate"] = isoformat(i.issued_date)
    /\ body["categoryId"] = i.category_id

\* C1: in every state reached by the bootstrap, Register and Login from an
\* empty user table, at most one user has role admin.
C1_AtMostOneAdmin == Cardinality(Admins(users)) <= 1

\* C2: no item ever references a category that is not stored: a category
\* delete detaches its items in the same transaction, and no item create or
\* update leaves a reference to a missing category.
C2_NoDanglingCategory ==
    \A i \in items : i.category_id # None => \E c \in categories : c.id = i.category_id

\* C2 witness: a category with items was deleted and its items are still
\* stored, detached; the other category is still referenced.
C2_Witness ==
    /\ resp.op = "category_detail" /\ resp.status = 204 /\ local.rowcount >= 1
    /\ \E i \in items : i.category_id = None
    /\ \E i \in items : i.category_id # None

\* C3: a successful delete of category c removes only c: each item that
\* referenced c is still stored with category_id null and every other column
\* as before, and every other item and category is as before.
C3_DeleteDetachesOnly ==
    [][(resp'.op = "category_detail" /\ resp'.status = 204) =>
          LET c == resp'.target
          IN  /\ \E x \in categories : x.id = c
              /\ categories' = {x \in categories : x.id # c}
              /\ Cardinality(items') = Cardinality(items)
              /\ \A i \in items :
                    IF i.category_id = c
                    THEN [i EXCEPT !.category_id = None] \in items'
                    ELSE i \in items']_vars

\* C3 witness: a delete that detached two items, which are both still stored
C3_Witness ==
    /\ resp.op = "category_detail" /\ resp.status = 204 /\ local.rowcount = 2
    /\ Cardinality({i \in items : i.category_id = None}) >= 2
    /\ \E i \in items : i.dynamic_attributes # EmptyDict

\* C4: a successful update overwrites each fixed field the payload carries,
\* keeps each fixed field it does not carry, keeps the id, and stores exactly
\* the payload's other keys as the dynamic attributes.
C4_UpdateOverwritesPresent ==
    (req.op = "item_detail_PUT" /\ resp.op = "item_detail_PUT" /\ resp.status = 200) =>
        \E after \in items :
            LET data == req.data
                before == local.item
            IN  /\ after.id = req.target /\ after.id = before.id
                /\ after.name = (IF "name" \in DOMAIN data THEN data["name"] ELSE before.name)
                /\ after.department =
                      (IF "department" \in DOMAIN data THEN data["department"]
                       ELSE before.department)
                /\ after.category_id =
                      (IF "categoryId" \in DOMAIN data THEN data["categoryId"]
                       ELSE before.category_id)
                /\ IF "issuedDate" \in DOMAIN data
                   THEN isoformat(after.issued_date) = data["issuedDate"]
                   ELSE after.issued_date = before.issued_date
                /\ DOMAIN after.dynamic_attributes =
                      DOMAIN data \ {"name", "department", "issuedDate", "categoryId"}
                /\ \A k \in DOMAIN after.dynamic_attributes :
                      after.dynamic_attributes[k] = data[k]

\* C5: once a user's stored credential is a hash, no login of that user takes
\* the plaintext branch again, and a login with any password other than the
\* one the hash was made from is refused with 401.
C5_MigrationIsOneWay ==
    [][\A u \in users :
          (IsHash(u.password) /\ req'.op = "login" /\ req'.target = u.username) =>
              /\ resp'.line # 99
              /\ (req'.data.password # SubSeq(u.password, 3, Len(u.password)) =>
                     resp'.status = 401)]_vars

\* C6: an item create, or an update of a stored item, whose payload carries an
\* issuedDate that is no ISO date is answered 400.
C6_BadDateIsValidationError ==
    (/\ req.op \in {"create_item", "item_detail_PUT"}
     /\ resp.op = req.op
     /\ resp.status # 404
     /\ "issuedDate" \in DOMAIN req.data
     /\ ~IsIsoDate(req.data["issuedDate"])) => resp.status = 400

\* C7: a mutating request answered with an error status leaves the user,
\* category and item tables as they were.
C7_ErrorsChangeNothing ==
    [][resp'.status >= 400 =>
          (users' = users /\ categories' = categories /\ items' = items)]_vars

\* C7 witness: an update that loaded a stored row was answered 500, after a
\* date that does not parse or at commit, and the row is stored as loaded
C7_Witness ==
    /\ resp.op = "item_detail_PUT" /\ resp.status = 500
    /\ local.item \in items
    /\ users # {} /\ categories # {}

\* C8: a serialized item carries the stored fixed fields: the response of a
\* create or update is the stored row, and the list has exactly one entry for
\* each stored row.
C8_SerializedCarriesStored ==
    /\ (resp.op \in {"create_item", "item_detail_PUT"} /\ resp.status \in {200, 201}) =>
          \E i \in items : CarriesStored(resp.body, i)
    /\ resp.op = "get_items" =>
          \A i \in items :
              Cardinality({n \in DOMAIN resp.list : CarriesStored(resp.list[n], i)}) = 1

\* C9: usernames stay unique, and a Register whose username is already stored
\* is answered 409 and changes no user, whatever password and role it carries.
C9_DuplicateIsConflict ==
    [][(req'.op = "register" /\ UsersNamed(users, req'.target) # {}) =>
          (resp'.status = 409 /\ users' = users)]_vars

\* C9 as amended: usernames stay unique, and a Register whose username is
\* already stored changes no user; it is answered 409 when it carries a
\* password and a role of admin or buyer, and 400 otherwise.
C9_DuplicateChangesNothing ==
    [][/\ \A a \in users' : \A b \in users' : a.username = b.username => a = b
       /\ (req'.op = "register" /\ UsersNamed(users, req'.target) # {}) =>
             /\ users' = users
             /\ resp'.status =
                   (IF req'.data.password # <<>> /\ req'.data.role \in {"admin", "buyer"}
                    THEN 409 ELSE 400)]_vars

\* C9 witness: a Register for a stored username, with another role than the
\* stored one, was answered 409
C9_Witness ==
    /\ req.op = "register" /\ resp.op = "register" /\ resp.status = 409
    /\ \E u \in users : u.username = req.target /\ u.role # req.data.role

\* C10: however two concurrent Register requests interleave, no two users
\* have role admin.
C10_NoSecondAdmin == \A a \in Admins(users) : \A b \in Admins(users) : a = b

====
